---- MODULE Spec2Model ----
(***************************************************************************)
(* Model of the sensor domain of simple_app: the unit vocabularies, the    *)
(* validating constructors of TemperatureSensor, HumiditySensor and        *)
(* CO2Sensor, the Sensor trait, the SensorData aggregate, its document     *)
(* form and the MongoDB repository.                                        *)
(*                                                                         *)
(* Representation.                                                         *)
(*   - A text (Rust String / &str) is a sequence of characters, each a     *)
(*     string naming one character, so that to_lowercase, is_empty and     *)
(*     text equality are computed.                                         *)
(*   - An f64 is [nan |-> BOOLEAN, x |-> Int]: the integer-valued doubles  *)
(*     and NaN, with the IEEE comparison (every comparison with NaN is     *)
(*     false).                                                             *)
(*   - A DateTime<Utc> is an integer instant; now is the wall clock.       *)
(*   - A Result is [tag |-> "Ok", obj |-> ...] or [tag |-> "Err",          *)
(*     err |-> ...]; an Option is [some |-> FALSE] or                      *)
(*     [some |-> TRUE, m |-> ...].                                         *)
(***************************************************************************)
EXTENDS Integers, Sequences, FiniteSets

VARIABLES
    now,      \* the wall clock read by Utc::now()
    call,     \* the last constructor call: its arguments and the clock reading taken inside it
    result,   \* the Result that call returned
    got,      \* the four inherent accessors applied to the returned object
    view,     \* the four Sensor trait methods applied to the returned object
    text,     \* the last text handed to a unit's TryFrom<&str>
    parsed,   \* the Result of that parse
    rec,      \* the SensorData record being built
    hist,     \* the builder calls applied to rec so far, oldest first
    store,    \* the documents of the MongoDB collection, in insertion order
    sent,     \* for each stored document, the record it was made from and whether its save returned Ok
    repoCall, \* the last repository call of the sequential caller
    repoRes,  \* the Result that repository call returned
    callers   \* for each concurrent caller, where its repository call stands

vars == <<now, call, result, got, view, text, parsed, rec, hist,
          store, sent, repoCall, repoRes, callers>>

sensorVars == <<now, call, result, got, view>>
unitVars == <<text, parsed>>
dataVars == <<rec, hist>>
repoVars == <<store, sent, repoCall, repoRes, callers>>

----------------------------------------------------------------------------
(* Bounds of the model *)

\* the clock runs from 0 to MaxNow
MaxNow == 2

\* at most MaxCalls builder calls are applied to a record
MaxCalls == 3

\* the collection holds at most MaxDocs documents
MaxDocs == 3

\* the number of callers that use the repository at the same time
MaxCallers == 2

----------------------------------------------------------------------------
(* f64 *)

F(x) == [nan |-> FALSE, x |-> x]

NaN == [nan |-> TRUE, x |-> 0]

\* a <= b on f64
F64_le(a, b) == ~a.nan /\ ~b.nan /\ a.x <= b.x

\* a < b on f64
F64_lt(a, b) == ~a.nan /\ ~b.nan /\ a.x < b.x

\* (start..=end).contains(&item)
RangeInclusive_contains(start, end, item) ==
    F64_le(start, item) /\ F64_le(item, end)

----------------------------------------------------------------------------
(* Texts *)

LowerAlphabet ==
    <<"a", "b", "c", "d", "e", "f", "g", "h", "i", "j", "k", "l", "m",
      "n", "o", "p", "q", "r", "s", "t", "u", "v", "w", "x", "y", "z">>

UpperAlphabet ==
    <<"A", "B", "C", "D", "E", "F", "G", "H", "I", "J", "K", "L", "M",
      "N", "O", "P", "Q", "R", "S", "T", "U", "V", "W", "X", "Y", "Z">>

\* three characters outside ASCII, each named by its code point
KELVIN_SIGN == "U+212A"

CAPITAL_I_WITH_DOT_ABOVE == "U+0130"

COMBINING_DOT_ABOVE == "U+0307"

\* char::to_lowercase on the characters of the model, which yields one or
\* more characters: an upper-case ASCII letter becomes its lower-case
\* letter, the Kelvin sign becomes "k", the capital I with dot above becomes
\* "i" followed by the combining dot above, every other character is kept
char_to_lowercase(c) ==
    IF \E i \in 1..Len(UpperAlphabet) : UpperAlphabet[i] = c
    THEN <<LowerAlphabet[CHOOSE i \in 1..Len(UpperAlphabet) : UpperAlphabet[i] = c]>>
    ELSE IF c = KELVIN_SIGN THEN <<"k">>
    ELSE IF c = CAPITAL_I_WITH_DOT_ABOVE THEN <<"i", COMBINING_DOT_ABOVE>>
    ELSE <<c>>

RECURSIVE to_lowercase(_)
\* str::to_lowercase: the lower-case forms of the characters, in order
to_lowercase(s) ==
    IF s = <<>> THEN <<>>
    ELSE char_to_lowercase(Head(s)) \o to_lowercase(Tail(s))

\* String::is_empty
is_empty(s) == Len(s) = 0

\* str::to_string
to_string(s) == s

----------------------------------------------------------------------------
(* SensorValidationError *)

EmptyDeviceId == [variant |-> "EmptyDeviceId"]

FutureTimestamp == [variant |-> "FutureTimestamp"]

ValueOutOfRange(value, min, max) ==
    [variant |-> "ValueOutOfRange", value |-> value, min |-> min, max |-> max]

InvalidUnit(raw) == [variant |-> "InvalidUnit", raw |-> raw]

Ok(obj) == [tag |-> "Ok", obj |-> obj]

Err(err) == [tag |-> "Err", err |-> err]

----------------------------------------------------------------------------
(* Unit vocabularies: temperature.rs, humidity.rs, co2.rs *)

\* the string literals of the three unit modules
STR_celsius == <<"c", "e", "l", "s", "i", "u", "s">>

STR_c == <<"c">>

STR_fahrenheit == <<"f", "a", "h", "r", "e", "n", "h", "e", "i", "t">>

STR_f == <<"f">>

STR_percent == <<"p", "e", "r", "c", "e", "n", "t">>

STR_percent_sign == <<"%">>

STR_ppm == <<"p", "p", "m">>

STR_Celsius == <<"C", "e", "l", "s", "i", "u", "s">>

STR_Fahrenheit == <<"F", "a", "h", "r", "e", "n", "h", "e", "i", "t">>

STR_Percent == <<"P", "e", "r", "c", "e", "n", "t">>

\* enum TemperatureUnit
TemperatureUnit == {"Celsius", "Fahrenheit"}

\* enum HumidityUnit
HumidityUnit == {"Percent"}

\* enum CO2Unit
CO2Unit == {"Ppm"}

\* TemperatureUnit::as_str with a slip: Celsius is shown as the degree symbol
TemperatureUnit_as_str_symbol(u) ==
    CASE u = "Celsius" -> <<"U+00B0", "C">>
      [] u = "Fahrenheit" -> STR_Fahrenheit

\* TemperatureUnit::as_str
TemperatureUnit_as_str(u) ==
    CASE u = "Celsius" -> STR_Celsius
      [] u = "Fahrenheit" -> STR_Fahrenheit

\* HumidityUnit::as_str
HumidityUnit_as_str(u) ==
    CASE u = "Percent" -> STR_Percent

\* CO2Unit::as_str
CO2Unit_as_str(u) ==
    CASE u = "Ppm" -> STR_ppm

\* TryFrom<&str> for TemperatureUnit with a slip: the text is matched as it is
TemperatureUnit_try_from_case_sensitive(value) ==
    IF value = STR_celsius \/ value = STR_c THEN Ok("Celsius")
    ELSE IF value = STR_fahrenheit \/ value = STR_f THEN Ok("Fahrenheit")
    ELSE Err(InvalidUnit(to_string(value)))

\* impl TryFrom<&str> for TemperatureUnit
TemperatureUnit_try_from(value) ==
    LET lower == to_lowercase(value)
    IN  IF lower = STR_celsius \/ lower = STR_c THEN Ok("Celsius")
        ELSE IF lower = STR_fahrenheit \/ lower = STR_f THEN Ok("Fahrenheit")
        ELSE Err(InvalidUnit(to_string(value)))

\* impl TryFrom<&str> for HumidityUnit
HumidityUnit_try_from(value) ==
    LET lower == to_lowercase(value)
    IN  IF lower = STR_percent \/ lower = STR_percent_sign THEN Ok("Percent")
        ELSE Err(InvalidUnit(to_string(value)))

\* TryFrom<&str> for CO2Unit with a slip: the error carries the lower-cased text
CO2Unit_try_from_lowered_error(value) ==
    LET lower == to_lowercase(value)
    IN  IF lower = STR_ppm THEN Ok("Ppm")
        ELSE Err(InvalidUnit(to_string(lower)))

\* impl TryFrom<&str> for CO2Unit
CO2Unit_try_from(value) ==
    LET lower == to_lowercase(value)
    IN  IF lower = STR_ppm THEN Ok("Ppm")
        ELSE Err(InvalidUnit(to_string(value)))

----------------------------------------------------------------------------
(* Sensor value objects: temperature.rs, humidity.rs, co2.rs *)

\* temperature.rs MIN_VALUE, MAX_VALUE
TEMPERATURE_MIN_VALUE == -50

TEMPERATURE_MAX_VALUE == 150

\* humidity.rs MIN_VALUE, MAX_VALUE
HUMIDITY_MIN_VALUE == 0

HUMIDITY_MAX_VALUE == 100

\* co2.rs MIN_VALUE, MAX_VALUE
CO2_MIN_VALUE == 0

CO2_MAX_VALUE == 50000

\* TemperatureSensor::new with a slip: the range check comes before the
\* timestamp check
TemperatureSensor_new_range_before_timestamp(device_id, timestamp, value, unit, clock) ==
    IF is_empty(device_id) THEN Err(EmptyDeviceId)
    ELSE IF ~RangeInclusive_contains(F(TEMPERATURE_MIN_VALUE), F(TEMPERATURE_MAX_VALUE), value)
         THEN Err(ValueOutOfRange(value, F(TEMPERATURE_MIN_VALUE), F(TEMPERATURE_MAX_VALUE)))
    ELSE IF timestamp > clock THEN Err(FutureTimestamp)
    ELSE Ok([kind |-> "TemperatureSensor", device_id |-> device_id, timestamp |-> timestamp,
             value |-> value, unit |-> unit])

\* TemperatureSensor::new with a slip: the timestamp check comes before the device id check
TemperatureSensor_new_timestamp_first(device_id, timestamp, value, unit, clock) ==
    IF timestamp > clock THEN Err(FutureTimestamp)
    ELSE IF is_empty(device_id) THEN Err(EmptyDeviceId)
    ELSE IF ~RangeInclusive_contains(F(TEMPERATURE_MIN_VALUE), F(TEMPERATURE_MAX_VALUE), value)
         THEN Err(ValueOutOfRange(value, F(TEMPERATURE_MIN_VALUE), F(TEMPERATURE_MAX_VALUE)))
    ELSE Ok([kind |-> "TemperatureSensor", device_id |-> device_id, timestamp |-> timestamp,
             value |-> value, unit |-> unit])

\* a constructor whose timestamp comparison is turned round: it rejects the
\* timestamps before the clock reading
TemperatureSensor_new_rejects_past(device_id, timestamp, value, unit, clock) ==
    IF is_empty(device_id) THEN Err(EmptyDeviceId)
    ELSE IF timestamp < clock THEN Err(FutureTimestamp)
    ELSE IF ~RangeInclusive_contains(F(TEMPERATURE_MIN_VALUE), F(TEMPERATURE_MAX_VALUE), value)
         THEN Err(ValueOutOfRange(value, F(TEMPERATURE_MIN_VALUE), F(TEMPERATURE_MAX_VALUE)))
    ELSE Ok([kind |-> "TemperatureSensor", device_id |-> device_id, timestamp |-> timestamp,
             value |-> value, unit |-> unit])

\* TemperatureSensor::new
TemperatureSensor_new(device_id, timestamp, value, unit, clock) ==
    IF is_empty(device_id) THEN Err(EmptyDeviceId)
    ELSE IF timestamp > clock THEN Err(FutureTimestamp)
    ELSE IF ~RangeInclusive_contains(F(TEMPERATURE_MIN_VALUE), F(TEMPERATURE_MAX_VALUE), value)
         THEN Err(ValueOutOfRange(value, F(TEMPERATURE_MIN_VALUE), F(TEMPERATURE_MAX_VALUE)))
    ELSE Ok([kind |-> "TemperatureSensor", device_id |-> device_id, timestamp |-> timestamp,
             value |-> value, unit |-> unit])

\* TemperatureSensor::device_id
TemperatureSensor_device_id(self) == self.device_id

\* TemperatureSensor::timestamp
TemperatureSensor_timestamp(self) == self.timestamp

\* TemperatureSensor::value
TemperatureSensor_value(self) == self.value

\* TemperatureSensor::unit
TemperatureSensor_unit(self) == self.unit

\* HumiditySensor::new with a slip: the error carries the bounds of the temperature module
HumiditySensor_new_temperature_bounds(device_id, timestamp, value, unit, clock) ==
    IF is_empty(device_id) THEN Err(EmptyDeviceId)
    ELSE IF timestamp > clock THEN Err(FutureTimestamp)
    ELSE IF ~RangeInclusive_contains(F(HUMIDITY_MIN_VALUE), F(HUMIDITY_MAX_VALUE), value)
         THEN Err(ValueOutOfRange(value, F(TEMPERATURE_MIN_VALUE), F(TEMPERATURE_MAX_VALUE)))
    ELSE Ok([kind |-> "HumiditySensor", device_id |-> device_id, timestamp |-> timestamp,
             value |-> value, unit |-> unit])

\* HumiditySensor::new with a slip: the timestamp is not checked
HumiditySensor_new_no_timestamp_check(device_id, timestamp, value, unit, clock) ==
    IF is_empty(device_id) THEN Err(EmptyDeviceId)
    ELSE IF ~RangeInclusive_contains(F(HUMIDITY_MIN_VALUE), F(HUMIDITY_MAX_VALUE), value)
         THEN Err(ValueOutOfRange(value, F(HUMIDITY_MIN_VALUE), F(HUMIDITY_MAX_VALUE)))
    ELSE Ok([kind |-> "HumiditySensor", device_id |-> device_id, timestamp |-> timestamp,
             value |-> value, unit |-> unit])

\* HumiditySensor::new
HumiditySensor_new(device_id, timestamp, value, unit, clock) ==
    IF is_empty(device_id) THEN Err(EmptyDeviceId)
    ELSE IF timestamp > clock THEN Err(FutureTimestamp)
    ELSE IF ~RangeInclusive_contains(F(HUMIDITY_MIN_VALUE), F(HUMIDITY_MAX_VALUE), value)
         THEN Err(ValueOutOfRange(value, F(HUMIDITY_MIN_VALUE), F(HUMIDITY_MAX_VALUE)))
    ELSE Ok([kind |-> "HumiditySensor", device_id |-> device_id, timestamp |-> timestamp,
             value |-> value, unit |-> unit])

\* HumiditySensor::device_id
HumiditySensor_device_id(self) == self.device_id

\* HumiditySensor::timestamp
HumiditySensor_timestamp(self) == self.timestamp

\* HumiditySensor::value
HumiditySensor_value(self) == self.value

\* HumiditySensor::unit
HumiditySensor_unit(self) == self.unit

\* CO2Sensor::new with a slip: the range excludes its maximum (MIN_VALUE..MAX_VALUE)
CO2Sensor_new_exclusive_max(device_id, timestamp, value, unit, clock) ==
    IF is_empty(device_id) THEN Err(EmptyDeviceId)
    ELSE IF timestamp > clock THEN Err(FutureTimestamp)
    ELSE IF ~(F64_le(F(CO2_MIN_VALUE), value) /\ F64_lt(value, F(CO2_MAX_VALUE)))
         THEN Err(ValueOutOfRange(value, F(CO2_MIN_VALUE), F(CO2_MAX_VALUE)))
    ELSE Ok([kind |-> "CO2Sensor", device_id |-> device_id, timestamp |-> timestamp,
             value |-> value, unit |-> unit])

\* CO2Sensor::new with a slip: the range check comes first
CO2Sensor_new_range_first(device_id, timestamp, value, unit, clock) ==
    IF ~RangeInclusive_contains(F(CO2_MIN_VALUE), F(CO2_MAX_VALUE), value)
         THEN Err(ValueOutOfRange(value, F(CO2_MIN_VALUE), F(CO2_MAX_VALUE)))
    ELSE IF is_empty(device_id) THEN Err(EmptyDeviceId)
    ELSE IF timestamp > clock THEN Err(FutureTimestamp)
    ELSE Ok([kind |-> "CO2Sensor", device_id |-> device_id, timestamp |-> timestamp,
             value |-> value, unit |-> unit])

\* CO2Sensor::new
CO2Sensor_new(device_id, timestamp, value, unit, clock) ==
    IF is_empty(device_id) THEN Err(EmptyDeviceId)
    ELSE IF timestamp > clock THEN Err(FutureTimestamp)
    ELSE IF ~RangeInclusive_contains(F(CO2_MIN_VALUE), F(CO2_MAX_VALUE), value)
         THEN Err(ValueOutOfRange(value, F(CO2_MIN_VALUE), F(CO2_MAX_VALUE)))
    ELSE Ok([kind |-> "CO2Sensor", device_id |-> device_id, timestamp |-> timestamp,
             value |-> value, unit |-> unit])

\* CO2Sensor::device_id
CO2Sensor_device_id(self) == self.device_id

\* CO2Sensor::timestamp
CO2Sensor_timestamp(self) == self.timestamp

\* CO2Sensor::value
CO2Sensor_value(self) == self.value

\* CO2Sensor::unit
CO2Sensor_unit(self) == self.unit

----------------------------------------------------------------------------
(* The Sensor trait: sensor.rs. A trait method dispatches on the concrete *)
(* type of self, which the object's kind field records.                   *)

\* impl Sensor for TemperatureSensor
Sensor_for_TemperatureSensor(self) ==
    [device_id |-> TemperatureSensor_device_id(self),
     timestamp |-> TemperatureSensor_timestamp(self),
     value |-> TemperatureSensor_value(self),
     unit |-> TemperatureUnit_as_str(TemperatureSensor_unit(self))]

\* impl Sensor for HumiditySensor with a slip: unit is the symbol, not as_str
Sensor_for_HumiditySensor_symbol(self) ==
    [device_id |-> HumiditySensor_device_id(self),
     timestamp |-> HumiditySensor_timestamp(self),
     value |-> HumiditySensor_value(self),
     unit |-> STR_percent_sign]

\* impl Sensor for HumiditySensor
Sensor_for_HumiditySensor(self) ==
    [device_id |-> HumiditySensor_device_id(self),
     timestamp |-> HumiditySensor_timestamp(self),
     value |-> HumiditySensor_value(self),
     unit |-> HumidityUnit_as_str(HumiditySensor_unit(self))]

\* impl Sensor for CO2Sensor
Sensor_for_CO2Sensor(self) ==
    [device_id |-> CO2Sensor_device_id(self),
     timestamp |-> CO2Sensor_timestamp(self),
     value |-> CO2Sensor_value(self),
     unit |-> CO2Unit_as_str(CO2Sensor_unit(self))]

\* the four methods of trait Sensor on a &dyn Sensor
Sensor(self) ==
    CASE self.kind = "TemperatureSensor" -> Sensor_for_TemperatureSensor(self)
      [] self.kind = "HumiditySensor" -> Sensor_for_HumiditySensor(self)
      [] self.kind = "CO2Sensor" -> Sensor_for_CO2Sensor(self)

\* the four inherent accessors of the object's own type
Accessors(self) ==
    CASE self.kind = "TemperatureSensor" ->
            [device_id |-> TemperatureSensor_device_id(self),
             timestamp |-> TemperatureSensor_timestamp(self),
             value |-> TemperatureSensor_value(self),
             unit |-> TemperatureSensor_unit(self)]
      [] self.kind = "HumiditySensor" ->
            [device_id |-> HumiditySensor_device_id(self),
             timestamp |-> HumiditySensor_timestamp(self),
             value |-> HumiditySensor_value(self),
             unit |-> HumiditySensor_unit(self)]
      [] self.kind = "CO2Sensor" ->
            [device_id |-> CO2Sensor_device_id(self),
             timestamp |-> CO2Sensor_timestamp(self),
             value |-> CO2Sensor_value(self),
             unit |-> CO2Sensor_unit(self)]

----------------------------------------------------------------------------
(* The aggregate record: entities/sensor_data.rs *)

\* Option
None == [some |-> FALSE]

Some(m) == [some |-> TRUE, m |-> m]

\* struct SensorMeasurement
SensorMeasurement(value, unit) == [value |-> value, unit |-> unit]

\* impl Into<String>: the text is moved or copied into an owned String
into_String(s) == s

\* HashMap::new
HashMap_new == <<>>

\* HashMap::insert: the entry of key k is added, or replaced when present
HashMap_insert(map, k, v) ==
    [x \in (DOMAIN map) \cup {k} |-> IF x = k THEN v ELSE map[x]]

\* SensorData::new with a slip: it validates the device id as the sensor
\* constructors do
SensorData_new_validating(device_id, timestamp) ==
    IF is_empty(device_id) THEN Err(EmptyDeviceId)
    ELSE [device_id |-> device_id, timestamp |-> timestamp,
          temperature |-> None, humidity |-> None, co2 |-> None,
          additional_sensors |-> HashMap_new]

\* SensorData::new
SensorData_new(device_id, timestamp) ==
    [device_id |-> device_id, timestamp |-> timestamp,
     temperature |-> None, humidity |-> None, co2 |-> None,
     additional_sensors |-> HashMap_new]

\* SensorData::with_temperature
SensorData_with_temperature(self, value, unit) ==
    [self EXCEPT !.temperature = Some(SensorMeasurement(value, into_String(unit)))]

\* SensorData::with_humidity with a slip: it assigns self.temperature
SensorData_with_humidity_into_temperature(self, value, unit) ==
    [self EXCEPT !.temperature = Some(SensorMeasurement(value, into_String(unit)))]

\* SensorData::with_humidity
SensorData_with_humidity(self, value, unit) ==
    [self EXCEPT !.humidity = Some(SensorMeasurement(value, into_String(unit)))]

\* SensorData::with_co2
SensorData_with_co2(self, value, unit) ==
    [self EXCEPT !.co2 = Some(SensorMeasurement(value, into_String(unit)))]

\* SensorData::with_additional_sensor with a slip: entry(name).or_insert(..),
\* which keeps the measurement a name already has
SensorData_with_additional_sensor_keep_first(self, name, value, unit) ==
    IF into_String(name) \in DOMAIN self.additional_sensors THEN self
    ELSE [self EXCEPT !.additional_sensors =
            HashMap_insert(self.additional_sensors, into_String(name),
                           SensorMeasurement(value, into_String(unit)))]

\* SensorData::with_additional_sensor
SensorData_with_additional_sensor(self, name, value, unit) ==
    [self EXCEPT !.additional_sensors =
        HashMap_insert(self.additional_sensors, into_String(name),
                       SensorMeasurement(value, into_String(unit)))]

----------------------------------------------------------------------------
(* The document form: infrastructure persistence/models.rs *)

\* impl From<&DomainMeasurement> for SensorMeasurement
SensorMeasurement_from(m) == [value |-> m.value, unit |-> m.unit]

\* impl From<SensorMeasurement> for DomainMeasurement
DomainMeasurement_from(m) == [value |-> m.value, unit |-> m.unit]

\* Option::as_ref().map(SensorMeasurement::from)
Option_map_SensorMeasurement_from(o) ==
    IF o.some THEN Some(SensorMeasurement_from(o.m)) ELSE None

\* Option::map(DomainMeasurement::from)
Option_map_DomainMeasurement_from(o) ==
    IF o.some THEN Some(DomainMeasurement_from(o.m)) ELSE None

\* impl From<&SensorData> for SensorDataDocument
SensorDataDocument_from(data) ==
    [id |-> None,
     device_id |-> data.device_id,
     timestamp |-> data.timestamp,
     temperature |-> Option_map_SensorMeasurement_from(data.temperature),
     humidity |-> Option_map_SensorMeasurement_from(data.humidity),
     co2 |-> Option_map_SensorMeasurement_from(data.co2),
     additional_sensors |->
        [k \in DOMAIN data.additional_sensors |->
            SensorMeasurement_from(data.additional_sensors[k])]]

\* a conversion whose co2 line was copied from the humidity line and not
\* changed
SensorData_from_humidity_twice(doc) ==
    [device_id |-> doc.device_id,
     timestamp |-> doc.timestamp,
     temperature |-> Option_map_DomainMeasurement_from(doc.temperature),
     humidity |-> Option_map_DomainMeasurement_from(doc.humidity),
     co2 |-> Option_map_DomainMeasurement_from(doc.humidity),
     additional_sensors |->
        [k \in DOMAIN doc.additional_sensors |->
            DomainMeasurement_from(doc.additional_sensors[k])]]

\* impl From<SensorDataDocument> for SensorData
SensorData_from(doc) ==
    [device_id |-> doc.device_id,
     timestamp |-> doc.timestamp,
     temperature |-> Option_map_DomainMeasurement_from(doc.temperature),
     humidity |-> Option_map_DomainMeasurement_from(doc.humidity),
     co2 |-> Option_map_DomainMeasurement_from(doc.co2),
     additional_sensors |->
        [k \in DOMAIN doc.additional_sensors |->
            DomainMeasurement_from(doc.additional_sensors[k])]]

\* chrono's Serialize for DateTime<Utc>: the instant as an RFC 3339 text
DateTime_serialize(t) == [rfc3339 |-> t]

\* chrono's Deserialize for DateTime<Utc>: the instant an RFC 3339 text names
DateTime_deserialize(b) == b.rfc3339

\* derive(Serialize) for SensorMeasurement: a document with value and unit
SensorMeasurement_serialize(m) == [value |-> m.value, unit |-> m.unit]

\* derive(Deserialize) for SensorMeasurement
SensorMeasurement_deserialize(b) == [value |-> b.value, unit |-> b.unit]

\* a serialization without skip_serializing_if on additional_sensors: the
\* key is written even when the map is empty
SensorDataDocument_serialize_always_additional(doc) ==
    LET keys == {"device_id", "timestamp"}
                \cup (IF doc.id.some THEN {"_id"} ELSE {})
                \cup (IF doc.temperature.some THEN {"temperature"} ELSE {})
                \cup (IF doc.humidity.some THEN {"humidity"} ELSE {})
                \cup (IF doc.co2.some THEN {"co2"} ELSE {})
                \cup {"additional_sensors"}
    IN  [k \in keys |->
            CASE k = "_id" -> doc.id.m
              [] k = "device_id" -> doc.device_id
              [] k = "timestamp" -> DateTime_serialize(doc.timestamp)
              [] k = "temperature" -> SensorMeasurement_serialize(doc.temperature.m)
              [] k = "humidity" -> SensorMeasurement_serialize(doc.humidity.m)
              [] k = "co2" -> SensorMeasurement_serialize(doc.co2.m)
              [] k = "additional_sensors" ->
                    [n \in DOMAIN doc.additional_sensors |->
                        SensorMeasurement_serialize(doc.additional_sensors[n])]]

\* derive(Serialize) for SensorDataDocument with its serde attributes: id is
\* written as _id, the Option fields are skipped when None and
\* additional_sensors is skipped when empty; the result maps each key
\* written to its value
SensorDataDocument_serialize(doc) ==
    LET keys == {"device_id", "timestamp"}
                \cup (IF doc.id.some THEN {"_id"} ELSE {})
                \cup (IF doc.temperature.some THEN {"temperature"} ELSE {})
                \cup (IF doc.humidity.some THEN {"humidity"} ELSE {})
                \cup (IF doc.co2.some THEN {"co2"} ELSE {})
                \cup (IF DOMAIN doc.additional_sensors = {} THEN {}
                      ELSE {"additional_sensors"})
    IN  [k \in keys |->
            CASE k = "_id" -> doc.id.m
              [] k = "device_id" -> doc.device_id
              [] k = "timestamp" -> DateTime_serialize(doc.timestamp)
              [] k = "temperature" -> SensorMeasurement_serialize(doc.temperature.m)
              [] k = "humidity" -> SensorMeasurement_serialize(doc.humidity.m)
              [] k = "co2" -> SensorMeasurement_serialize(doc.co2.m)
              [] k = "additional_sensors" ->
                    [n \in DOMAIN doc.additional_sensors |->
                        SensorMeasurement_serialize(doc.additional_sensors[n])]]

\* an Option field of a document read back: None when its key is missing
Option_deserialize(b, key) ==
    IF key \in DOMAIN b THEN Some(SensorMeasurement_deserialize(b[key])) ELSE None

\* derive(Deserialize) for SensorDataDocument with its serde attributes: a
\* missing Option key reads as None, a missing additional_sensors as the
\* default, the empty map
SensorDataDocument_deserialize(b) ==
    [id |-> IF "_id" \in DOMAIN b THEN Some(b["_id"]) ELSE None,
     device_id |-> b["device_id"],
     timestamp |-> DateTime_deserialize(b["timestamp"]),
     temperature |-> Option_deserialize(b, "temperature"),
     humidity |-> Option_deserialize(b, "humidity"),
     co2 |-> Option_deserialize(b, "co2"),
     additional_sensors |->
        IF "additional_sensors" \in DOMAIN b
        THEN [n \in DOMAIN b["additional_sensors"] |->
                SensorMeasurement_deserialize(b["additional_sensors"][n])]
        ELSE HashMap_new]

----------------------------------------------------------------------------
(* The repository: infrastructure persistence/mongo_sensor_repository.rs   *)
(*                                                                         *)
(* The collection is the sequence of its documents in insertion order. A   *)
(* call to the server has an outcome the caller does not choose:           *)
(*   "ok"             the server did what was asked and answered;          *)
(*   "rejected"       the server did nothing and the call returns an error;*)
(*   "unacknowledged" the server applied the insert but the call returns   *)
(*                    an error (the answer was lost, or the write concern  *)
(*                    was not met in time);                                *)
(*   "cursor_failed"  the query was answered but reading its cursor failed.*)

\* the error a failed call of the driver returns, passed on by the ? operator
StorageError == [variant |-> "StorageError"]

\* the () of Ok(())
Unit == <<>>

\* a document as the collection stores it: a document sent without _id is
\* given a fresh ObjectId, here the number of the insert
WithObjectId(coll, b) ==
    IF "_id" \in DOMAIN b THEN b
    ELSE [k \in (DOMAIN b) \cup {"_id"} |-> IF k = "_id" THEN Len(coll) + 1 ELSE b[k]]

\* a write that keeps one document per device: replace_one with upsert,
\* filtered on device_id
Collection_insert_one_replace_device(coll, doc, outcome) ==
    LET b == WithObjectId(coll, SensorDataDocument_serialize(doc))
        same == {i \in 1..Len(coll) : coll[i]["device_id"] = doc.device_id}
        written == IF same = {} THEN Append(coll, b)
                   ELSE [i \in 1..Len(coll) |-> IF i \in same THEN b ELSE coll[i]]
    IN  CASE outcome = "ok" -> [coll |-> written, res |-> Ok(Len(coll) + 1)]
          [] outcome = "unacknowledged" -> [coll |-> written, res |-> Err(StorageError)]
          [] outcome = "rejected" -> [coll |-> coll, res |-> Err(StorageError)]

\* Collection::insert_one(document).await: one document is added whole, or none
Collection_insert_one(coll, doc, outcome) ==
    CASE outcome = "ok" ->
            [coll |-> Append(coll, WithObjectId(coll, SensorDataDocument_serialize(doc))),
             res |-> Ok(Len(coll) + 1)]
      [] outcome = "unacknowledged" ->
            [coll |-> Append(coll, WithObjectId(coll, SensorDataDocument_serialize(doc))),
             res |-> Err(StorageError)]
      [] outcome = "rejected" ->
            [coll |-> coll, res |-> Err(StorageError)]

\* a find whose filter is the empty document: every document matches
Collection_find_unfiltered(coll, device_id, order, outcome) ==
    IF outcome = "rejected" THEN Err(StorageError)
    ELSE Ok(order)

\* Collection::find(doc! { "device_id": device_id }).await: a cursor over the
\* positions of the documents whose device_id equals the filter's; order is
\* the order in which the server visits the collection
Collection_find(coll, device_id, order, outcome) ==
    IF outcome = "rejected" THEN Err(StorageError)
    ELSE LET Matches(i) == coll[i]["device_id"] = device_id
         IN  Ok(SelectSeq(order, Matches))

\* for each length up to the largest collection, the orders in which the
\* server may visit the positions 1..n
OrdersUpTo ==
    [n \in 0..MaxDocs |->
        {o \in [1..n -> 1..n] : \A i, j \in 1..n : i # j => o[i] # o[j]}]

\* the orders in which the server may visit the positions 1..n
Orders(n) == OrdersUpTo[n]

\* the orders that tell two calls apart: a query the server rejects visits
\* nothing, so one order stands for all
VisitOrders(n, outcome) ==
    IF outcome = "rejected" THEN {[i \in 1..n |-> i]} ELSE Orders(n)

\* cursor.try_collect().await: the documents of the cursor, each deserialized
Cursor_try_collect(coll, cursor, outcome) ==
    IF outcome = "cursor_failed" THEN Err(StorageError)
    ELSE Ok([j \in 1..Len(cursor) |-> SensorDataDocument_deserialize(coll[cursor[j]])])

\* a save that ignores the Result of insert_one and always returns Ok(())
MongoSensorRepository_save_suppressing(coll, data, outcome) ==
    LET document == SensorDataDocument_from(data)
        inserted == Collection_insert_one(coll, document, outcome)
    IN  [coll |-> inserted.coll, res |-> Ok(Unit), attempts |-> 1]

\* a save that keeps one document per (device_id, timestamp, slots): it
\* returns Ok without inserting when the collection holds the record already
MongoSensorRepository_save_skip_duplicate(coll, data, outcome) ==
    LET document == SensorDataDocument_from(data)
        inserted == Collection_insert_one(coll, document, outcome)
    IN  IF \E i \in 1..Len(coll) :
                SensorData_from(SensorDataDocument_deserialize(coll[i])) = data
        THEN [coll |-> coll, res |-> Ok(Unit), attempts |-> 1]
        ELSE IF inserted.res.tag = "Err"
        THEN [coll |-> inserted.coll, res |-> Err(inserted.res.err), attempts |-> 1]
        ELSE [coll |-> inserted.coll, res |-> Ok(Unit), attempts |-> 1]

\* MongoSensorRepository::save: the new collection, the Result returned and
\* the number of insert_one calls made
MongoSensorRepository_save(coll, data, outcome) ==
    LET document == SensorDataDocument_from(data)
        inserted == Collection_insert_one(coll, document, outcome)
    IN  IF inserted.res.tag = "Err"
        THEN [coll |-> inserted.coll, res |-> Err(inserted.res.err), attempts |-> 1]
        ELSE [coll |-> inserted.coll, res |-> Ok(Unit), attempts |-> 1]

\* a find_by_device_id that reports an empty result as an error
MongoSensorRepository_find_by_device_id_not_found(coll, device_id, order, outcome) ==
    LET cursor == Collection_find(coll, device_id, order, outcome)
    IN  IF cursor.tag = "Err" THEN [res |-> Err(cursor.err), attempts |-> 1]
        ELSE LET documents == Cursor_try_collect(coll, cursor.obj, outcome)
             IN  IF documents.tag = "Err"
                 THEN [res |-> Err(documents.err), attempts |-> 1]
                 ELSE IF Len(documents.obj) = 0
                 THEN [res |-> Err([variant |-> "NotFound"]), attempts |-> 1]
                 ELSE [res |-> Ok([j \in 1..Len(documents.obj) |->
                                      SensorData_from(documents.obj[j])]),
                       attempts |-> 1]

\* MongoSensorRepository::find_by_device_id
MongoSensorRepository_find_by_device_id(coll, device_id, order, outcome) ==
    LET cursor == Collection_find(coll, device_id, order, outcome)
    IN  IF cursor.tag = "Err" THEN [res |-> Err(cursor.err), attempts |-> 1]
        ELSE LET documents == Cursor_try_collect(coll, cursor.obj, outcome)
             IN  IF documents.tag = "Err"
                 THEN [res |-> Err(documents.err), attempts |-> 1]
                 ELSE [res |-> Ok([j \in 1..Len(documents.obj) |->
                                      SensorData_from(documents.obj[j])]),
                       attempts |-> 1]

----------------------------------------------------------------------------
(* Inputs *)

STR_device_001 == <<"d", "e", "v", "i", "c", "e", "-", "0", "0", "1">>

STR_d == <<"d">>

STR_pressure == <<"p", "r", "e", "s", "s", "u", "r", "e">>

STR_temperature == <<"t", "e", "m", "p", "e", "r", "a", "t", "u", "r", "e">>

STR_humidity == <<"h", "u", "m", "i", "d", "i", "t", "y">>

STR_co2 == <<"c", "o", "2">>

STR_hPa == <<"h", "P", "a">>

\* device ids handed to the constructors: the empty one and a non-empty one
DeviceIds == {<<>>, STR_device_001}

\* timestamps handed to the constructors: before, at and after every clock reading
Timestamps == 0..(MaxNow + 1)

\* values handed to the constructors: inside, on and outside the bounds of
\* each kind, and NaN
SensorValues ==
    {F(x) : x \in {-60, -51, -50, -49, -1, 0, 1, 25, 99, 100, 101, 149, 150,
                   151, 160, 49999, 50000, 50001}} \cup {NaN}

RECURSIVE CaseVariants(_)
\* the spellings of s in every mix of upper and lower case
CaseVariants(s) ==
    IF s = <<>> THEN {<<>>}
    ELSE LET lows == {i \in 1..Len(LowerAlphabet) : LowerAlphabet[i] = s[1]}
             heads == {s[1]} \cup {UpperAlphabet[i] : i \in lows}
         IN  {<<c>> \o r : c \in heads, r \in CaseVariants(Tail(s))}

\* texts handed to the unit parsers: every alias of every kind in every mix
\* of case, and texts that are no alias
UnitTexts ==
    CaseVariants(STR_celsius) \cup CaseVariants(STR_c)
    \cup CaseVariants(STR_fahrenheit) \cup CaseVariants(STR_f)
    \cup CaseVariants(STR_percent) \cup CaseVariants(STR_percent_sign)
    \cup CaseVariants(STR_ppm)
    \cup {<<>>, <<" ">>, <<" ", "c">>, <<"C", " ">>, <<" ", "p", "p", "m", " ">>,
          <<"c", "c">>, <<"k">>, <<"K">>, <<"c", "e", "l", "s", "i", "u">>,
          <<"p", "p", "m", "m">>, <<"%", "%">>, <<"p", "c", "t">>,
          <<"I", "N", "V", "A", "L", "I", "D">>, <<"I", "n", "v", "a", "l", "i", "d">>,
          <<"i", "n", "v", "a", "l", "i", "d">>, STR_hPa,
          <<KELVIN_SIGN>>, <<"p", "p", COMBINING_DOT_ABOVE, "m">>,
          <<"C", "E", "L", "S", CAPITAL_I_WITH_DOT_ABOVE, "U", "S">>,
          <<"c", "e", "l", "s", CAPITAL_I_WITH_DOT_ABOVE, "u", "s">>}

\* the arguments of SensorData::new, which validates neither: an empty device
\* id with a timestamp after every clock reading, and a plain pair
DataNews == {<<<<>>, MaxNow + 1>>, <<STR_d, 0>>}

\* values and unit texts attached to records: inside and outside every
\* range, inside and outside every vocabulary
DataValues == {F(22), F(-1000)}

DataUnits == {STR_celsius, STR_hPa}

\* names of additional sensors, the names of a built-in slot among them
DataNames == {STR_pressure, STR_temperature, STR_humidity, STR_co2}

STR_other_device == <<"o", "t", "h", "e", "r", "-", "d", "e", "v", "i", "c", "e">>

\* the records handed to save: the record of the specification's scenario, a
\* record with the empty device id and no measurement, a record of another
\* device with every slot and two additional sensors, and a record whose
\* value is NaN
RepoRecords ==
    {SensorData_with_additional_sensor(
        SensorData_with_temperature(SensorData_new(STR_d, 1), F(22), STR_celsius),
        STR_pressure, F(1013), STR_hPa),
     SensorData_new(<<>>, MaxNow + 1),
     SensorData_with_additional_sensor(
        SensorData_with_additional_sensor(
            SensorData_with_co2(
                SensorData_with_humidity(
                    SensorData_with_temperature(SensorData_new(STR_other_device, 2),
                                                F(22), STR_celsius),
                    F(60), STR_percent),
                F(450), STR_ppm),
            STR_pressure, F(1013), STR_hPa),
        STR_temperature, F(-1000), STR_hPa),
     SensorData_with_co2(SensorData_new(STR_d, 0), NaN, STR_ppm)}

\* the device ids asked for: ids with records, and one that is never saved
RepoDeviceIds == {STR_d, STR_other_device, <<>>, STR_device_001}

\* the outcomes of an insert and of a query at the server
InsertOutcomes == {"ok", "rejected", "unacknowledged"}

FindOutcomes == {"ok", "rejected", "cursor_failed"}

\* the concurrent callers of one repository
Callers == 1..MaxCallers

\* the records the concurrent callers save: two of one device, one of another
ConcRecords ==
    {r \in RepoRecords : r.device_id \in {STR_d, STR_other_device}}

\* the device ids the concurrent callers ask for
ConcDeviceIds == {STR_d, STR_other_device}

----------------------------------------------------------------------------
(* State machine *)

\* a caller that has not called the repository yet
Idle == [pc |-> "idle", kind |-> "none"]

NoCall == [kind |-> "none"]

NoResult == [tag |-> "none"]

NotRead == [read |-> FALSE]

NoParse == [kind |-> "none", res |-> NoResult]

Init ==
    /\ now = 0
    /\ call = NoCall
    /\ result = NoResult
    /\ got = NotRead
    /\ view = NotRead
    /\ text = <<>>
    /\ parsed = NoParse
    /\ \E a \in DataNews :
          /\ rec = SensorData_new(a[1], a[2])
          /\ hist = <<[op |-> "new", device_id |-> a[1], timestamp |-> a[2]]>>
    /\ store = <<>>
    /\ sent = <<>>
    /\ repoCall = NoCall
    /\ repoRes = NoResult
    /\ callers = [c \in Callers |-> Idle]

\* the wall clock advances
Tick ==
    /\ now < MaxNow
    /\ now' = now + 1
    /\ UNCHANGED <<call, result, got, view, unitVars, dataVars, repoVars>>

\* a call of TemperatureSensor::new; Utc::now() is read inside the call
NewTemperatureSensor ==
    \E d \in DeviceIds, t \in Timestamps, v \in SensorValues, u \in TemperatureUnit :
        /\ call = NoCall
        /\ call' = [kind |-> "TemperatureSensor", device_id |-> d, timestamp |-> t,
                    value |-> v, unit |-> u, clock |-> now]
        /\ result' = TemperatureSensor_new(d, t, v, u, now)
        /\ got' = NotRead
        /\ view' = NotRead
        /\ UNCHANGED <<now, unitVars, dataVars, repoVars>>

\* a call of HumiditySensor::new; Utc::now() is read inside the call
NewHumiditySensor ==
    \E d \in DeviceIds, t \in Timestamps, v \in SensorValues, u \in HumidityUnit :
        /\ call = NoCall
        /\ call' = [kind |-> "HumiditySensor", device_id |-> d, timestamp |-> t,
                    value |-> v, unit |-> u, clock |-> now]
        /\ result' = HumiditySensor_new(d, t, v, u, now)
        /\ got' = NotRead
        /\ view' = NotRead
        /\ UNCHANGED <<now, unitVars, dataVars, repoVars>>

\* a call of CO2Sensor::new; Utc::now() is read inside the call
NewCO2Sensor ==
    \E d \in DeviceIds, t \in Timestamps, v \in SensorValues, u \in CO2Unit :
        /\ call = NoCall
        /\ call' = [kind |-> "CO2Sensor", device_id |-> d, timestamp |-> t,
                    value |-> v, unit |-> u, clock |-> now]
        /\ result' = CO2Sensor_new(d, t, v, u, now)
        /\ got' = NotRead
        /\ view' = NotRead
        /\ UNCHANGED <<now, unitVars, dataVars, repoVars>>

\* the wall clock is set back: Utc::now() reads the system clock, which a
\* time adjustment can move to an earlier instant
StepBack ==
    /\ now > 0
    /\ now' = now - 1
    /\ UNCHANGED <<call, result, got, view, unitVars, dataVars, repoVars>>

\* the constructor of a kind, by the kind's name
Sensor_new(kind, device_id, timestamp, value, unit, clock) ==
    CASE kind = "TemperatureSensor" ->
            TemperatureSensor_new(device_id, timestamp, value, unit, clock)
      [] kind = "HumiditySensor" ->
            HumiditySensor_new(device_id, timestamp, value, unit, clock)
      [] kind = "CO2Sensor" ->
            CO2Sensor_new(device_id, timestamp, value, unit, clock)

\* the caller calls the same constructor again with the same four
\* arguments; Utc::now() is read anew inside the call. before keeps the
\* clock reading and the Result of the call it repeats
CallAgain ==
    /\ call # NoCall
    /\ call' = [kind |-> call.kind, device_id |-> call.device_id,
                timestamp |-> call.timestamp, value |-> call.value,
                unit |-> call.unit, clock |-> now,
                before |-> [clock |-> call.clock, result |-> result]]
    /\ result' = Sensor_new(call.kind, call.device_id, call.timestamp,
                            call.value, call.unit, now)
    /\ got' = NotRead
    /\ view' = NotRead
    /\ UNCHANGED <<now, unitVars, dataVars, repoVars>>

\* the caller reads the four inherent accessors of the returned object
ReadAccessors ==
    /\ result.tag = "Ok"
    /\ got' = Accessors(result.obj)
    /\ UNCHANGED <<now, call, result, view, unitVars, dataVars, repoVars>>

\* the caller reads the returned object through the Sensor trait
ReadSensor ==
    /\ result.tag = "Ok"
    /\ view' = Sensor(result.obj)
    /\ UNCHANGED <<now, call, result, got, unitVars, dataVars, repoVars>>

\* the returned object goes out of scope; the caller is ready for another call
Drop ==
    /\ call # NoCall
    /\ call' = NoCall
    /\ result' = NoResult
    /\ got' = NotRead
    /\ view' = NotRead
    /\ UNCHANGED <<now, unitVars, dataVars, repoVars>>

\* a call of TemperatureUnit::try_from(&str)
ParseTemperatureUnit ==
    \E t \in UnitTexts :
        /\ parsed = NoParse
        /\ text' = t
        /\ parsed' = [kind |-> "TemperatureUnit", res |-> TemperatureUnit_try_from(t)]
        /\ UNCHANGED <<sensorVars, dataVars, repoVars>>

\* a call of HumidityUnit::try_from(&str)
ParseHumidityUnit ==
    \E t \in UnitTexts :
        /\ parsed = NoParse
        /\ text' = t
        /\ parsed' = [kind |-> "HumidityUnit", res |-> HumidityUnit_try_from(t)]
        /\ UNCHANGED <<sensorVars, dataVars, repoVars>>

\* a call of CO2Unit::try_from(&str)
ParseCO2Unit ==
    \E t \in UnitTexts :
        /\ parsed = NoParse
        /\ text' = t
        /\ parsed' = [kind |-> "CO2Unit", res |-> CO2Unit_try_from(t)]
        /\ UNCHANGED <<sensorVars, dataVars, repoVars>>

\* the display label of a unit is handed back to the parser of its kind
ParseLabel ==
    /\ parsed = NoParse
    /\ \/ \E u \in TemperatureUnit :
            /\ text' = TemperatureUnit_as_str(u)
            /\ parsed' = [kind |-> "TemperatureUnit", of |-> u,
                          res |-> TemperatureUnit_try_from(TemperatureUnit_as_str(u))]
       \/ \E u \in HumidityUnit :
            /\ text' = HumidityUnit_as_str(u)
            /\ parsed' = [kind |-> "HumidityUnit", of |-> u,
                          res |-> HumidityUnit_try_from(HumidityUnit_as_str(u))]
       \/ \E u \in CO2Unit :
            /\ text' = CO2Unit_as_str(u)
            /\ parsed' = [kind |-> "CO2Unit", of |-> u,
                          res |-> CO2Unit_try_from(CO2Unit_as_str(u))]
    /\ UNCHANGED <<sensorVars, dataVars, repoVars>>

\* the parse result goes out of scope; the caller is ready for another parse
DropParsed ==
    /\ parsed # NoParse
    /\ text' = <<>>
    /\ parsed' = NoParse
    /\ UNCHANGED <<sensorVars, dataVars, repoVars>>

\* a call of SensorData::with_temperature on the record
WithTemperature ==
    \E v \in DataValues, u \in DataUnits :
        /\ Len(hist) < MaxCalls + 1
        /\ rec' = SensorData_with_temperature(rec, v, u)
        /\ hist' = Append(hist, [op |-> "with_temperature", name |-> <<>>, value |-> v, unit |-> u])
        /\ UNCHANGED <<sensorVars, unitVars, repoVars>>

\* a call of SensorData::with_humidity on the record
WithHumidity ==
    \E v \in DataValues, u \in DataUnits :
        /\ Len(hist) < MaxCalls + 1
        /\ rec' = SensorData_with_humidity(rec, v, u)
        /\ hist' = Append(hist, [op |-> "with_humidity", name |-> <<>>, value |-> v, unit |-> u])
        /\ UNCHANGED <<sensorVars, unitVars, repoVars>>

\* a call of SensorData::with_co2 on the record
WithCo2 ==
    \E v \in DataValues, u \in DataUnits :
        /\ Len(hist) < MaxCalls + 1
        /\ rec' = SensorData_with_co2(rec, v, u)
        /\ hist' = Append(hist, [op |-> "with_co2", name |-> <<>>, value |-> v, unit |-> u])
        /\ UNCHANGED <<sensorVars, unitVars, repoVars>>

\* a call of SensorData::with_additional_sensor on the record
WithAdditionalSensor ==
    \E n \in DataNames, v \in DataValues, u \in DataUnits :
        /\ Len(hist) < MaxCalls + 1
        /\ rec' = SensorData_with_additional_sensor(rec, n, v, u)
        /\ hist' = Append(hist, [op |-> "with_additional_sensor", name |-> n,
                                  value |-> v, unit |-> u])
        /\ UNCHANGED <<sensorVars, unitVars, repoVars>>

\* a call of MongoSensorRepository::save, with the outcome of its insert
Save ==
    /\ repoCall = NoCall
    /\ Len(store) < MaxDocs
    /\ \E data \in RepoRecords, outcome \in InsertOutcomes :
         LET r == MongoSensorRepository_save(store, data, outcome)
         IN  /\ store' = r.coll
             /\ repoRes' = r.res
             /\ repoCall' = [kind |-> "save", data |-> data, outcome |-> outcome,
                             attempts |-> r.attempts]
             /\ sent' = IF Len(r.coll) > Len(store)
                        THEN Append(sent, [data |-> data, acked |-> r.res.tag = "Ok"])
                        ELSE sent
    /\ UNCHANGED <<callers, sensorVars, unitVars, dataVars>>

\* a call of MongoSensorRepository::find_by_device_id, with the outcome of
\* its query and the order in which the server visits the collection
FindByDeviceId ==
    /\ repoCall = NoCall
    /\ \E d \in RepoDeviceIds, outcome \in FindOutcomes :
         \E order \in VisitOrders(Len(store), outcome) :
            LET r == MongoSensorRepository_find_by_device_id(store, d, order, outcome)
            IN  /\ repoRes' = r.res
                /\ repoCall' = [kind |-> "find_by_device_id", device_id |-> d,
                                outcome |-> outcome, attempts |-> r.attempts]
    /\ UNCHANGED <<store, sent, callers, sensorVars, unitVars, dataVars>>

\* the caller drops the Result and is ready for another repository call
DropRepo ==
    /\ repoCall # NoCall
    /\ repoCall' = NoCall
    /\ repoRes' = NoResult
    /\ UNCHANGED <<store, sent, callers, sensorVars, unitVars, dataVars>>

\* the sensor value objects
Next ==
    \/ Tick
    \/ NewTemperatureSensor
    \/ NewHumiditySensor
    \/ NewCO2Sensor
    \/ ReadAccessors
    \/ ReadSensor
    \/ Drop

Spec == Init /\ [][Next]_vars

\* the constructors called again as the wall clock moves
NextClock ==
    \/ Tick
    \/ StepBack
    \/ NewTemperatureSensor
    \/ NewHumiditySensor
    \/ NewCO2Sensor
    \/ CallAgain
    \/ Drop

SpecClock == Init /\ [][NextClock]_vars

\* the unit parsers
NextUnit ==
    \/ ParseTemperatureUnit
    \/ ParseHumidityUnit
    \/ ParseCO2Unit
    \/ ParseLabel
    \/ DropParsed

SpecUnit == Init /\ [][NextUnit]_vars

\* the aggregate record
NextData ==
    \/ WithTemperature
    \/ WithHumidity
    \/ WithCo2
    \/ WithAdditionalSensor

SpecData == Init /\ [][NextData]_vars

\* save, line 23: a caller enters save and converts its record
CallSave(c) ==
    /\ callers[c].pc = "idle"
    /\ \E data \in ConcRecords :
         callers' = [callers EXCEPT ![c] =
                        [pc |-> "insert_one", kind |-> "save", data |-> data,
                         document |-> SensorDataDocument_from(data)]]
    /\ UNCHANGED <<store, sent, repoCall, repoRes, sensorVars, unitVars, dataVars>>

\* save, line 24, at the server: the insert of one caller is applied or
\* rejected while the other callers' calls are under way
ServerInsert(c) ==
    /\ callers[c].pc = "insert_one"
    /\ \E outcome \in InsertOutcomes :
         LET inserted == Collection_insert_one(store, callers[c].document, outcome)
         IN  /\ store' = inserted.coll
             /\ sent' = IF Len(inserted.coll) > Len(store)
                        THEN Append(sent, [data |-> callers[c].data,
                                           acked |-> inserted.res.tag = "Ok"])
                        ELSE sent
             /\ callers' = [callers EXCEPT ![c] =
                            [pc |-> "answered", kind |-> "save",
                             data |-> callers[c].data, outcome |-> outcome,
                             answer |-> inserted.res]]
    /\ UNCHANGED <<repoCall, repoRes, sensorVars, unitVars, dataVars>>

\* save, lines 24-25: the await ends, ? passes an error on, else Ok(())
ReturnSave(c) ==
    /\ callers[c].pc = "answered"
    /\ callers[c].kind = "save"
    /\ callers' = [callers EXCEPT ![c] =
                    [pc |-> "returned", kind |-> "save", data |-> callers[c].data,
                     outcome |-> callers[c].outcome,
                     res |-> IF callers[c].answer.tag = "Err"
                             THEN Err(callers[c].answer.err)
                             ELSE Ok(Unit)]]
    /\ UNCHANGED <<store, sent, repoCall, repoRes, sensorVars, unitVars, dataVars>>

\* find_by_device_id, line 29: a caller enters find_by_device_id
CallFind(c) ==
    /\ callers[c].pc = "idle"
    /\ \E d \in ConcDeviceIds :
         callers' = [callers EXCEPT ![c] =
                        [pc |-> "find", kind |-> "find_by_device_id",
                         device_id |-> d]]
    /\ UNCHANGED <<store, sent, repoCall, repoRes, sensorVars, unitVars, dataVars>>

\* find_by_device_id, line 30, at the server: the query is answered with a
\* cursor over the documents that match now, or rejected
ServerFind(c) ==
    /\ callers[c].pc = "find"
    /\ \E outcome \in {"ok", "rejected"} :
         \E order \in VisitOrders(Len(store), outcome) :
            LET cursor == Collection_find(store, callers[c].device_id, order, outcome)
            IN  callers' = [callers EXCEPT ![c] =
                    IF cursor.tag = "Err"
                    THEN [pc |-> "answered", kind |-> "find_by_device_id",
                          device_id |-> callers[c].device_id, answer |-> cursor]
                    ELSE [pc |-> "try_collect", kind |-> "find_by_device_id",
                          device_id |-> callers[c].device_id, cursor |-> cursor.obj]]
    /\ UNCHANGED <<store, sent, repoCall, repoRes, sensorVars, unitVars, dataVars>>

\* find_by_device_id, line 31, at the server: the documents of the cursor
\* are read, each whole, from the collection as it is by then
ServerCollect(c) ==
    /\ callers[c].pc = "try_collect"
    /\ \E outcome \in {"ok", "cursor_failed"} :
         callers' = [callers EXCEPT ![c] =
                        [pc |-> "answered", kind |-> "find_by_device_id",
                         device_id |-> callers[c].device_id,
                         answer |-> Cursor_try_collect(store, callers[c].cursor, outcome)]]
    /\ UNCHANGED <<store, sent, repoCall, repoRes, sensorVars, unitVars, dataVars>>

\* find_by_device_id, lines 30-33: ? passes an error on, else every document
\* is converted and the Vec returned
ReturnFind(c) ==
    /\ callers[c].pc = "answered"
    /\ callers[c].kind = "find_by_device_id"
    /\ callers' = [callers EXCEPT ![c] =
                    [pc |-> "returned", kind |-> "find_by_device_id",
                     device_id |-> callers[c].device_id,
                     res |-> IF callers[c].answer.tag = "Err"
                             THEN Err(callers[c].answer.err)
                             ELSE Ok([j \in 1..Len(callers[c].answer.obj) |->
                                        SensorData_from(callers[c].answer.obj[j])])]]
    /\ UNCHANGED <<store, sent, repoCall, repoRes, sensorVars, unitVars, dataVars>>

\* the repository, one call at a time
NextRepo ==
    \/ Save
    \/ FindByDeviceId
    \/ DropRepo

SpecRepo == Init /\ [][NextRepo]_vars

\* the repository under concurrent callers, one call each
NextConc ==
    \E c \in Callers :
        \/ CallSave(c)
        \/ ServerInsert(c)
        \/ ReturnSave(c)
        \/ CallFind(c)
        \/ ServerFind(c)
        \/ ServerCollect(c)
        \/ ReturnFind(c)

SpecConc == Init /\ [][NextConc]_vars

----------------------------------------------------------------------------
(* Claims about the constructors, under Spec *)

\* the bounds of each kind as the specification's table states them
TableMin(kind) ==
    CASE kind = "TemperatureSensor" -> -50
      [] kind = "HumiditySensor" -> 0
      [] kind = "CO2Sensor" -> 0

TableMax(kind) ==
    CASE kind = "TemperatureSensor" -> 150
      [] kind = "HumiditySensor" -> 100
      [] kind = "CO2Sensor" -> 50000

\* the last call's value lies in the table's range of its kind, bounds included
CallInRange ==
    /\ ~call.value.nan
    /\ TableMin(call.kind) <= call.value.x
    /\ call.value.x <= TableMax(call.kind)

\* the last call's value lies below the minimum or above the maximum
CallOutOfRange ==
    /\ ~call.value.nan
    /\ \/ call.value.x < TableMin(call.kind)
       \/ call.value.x > TableMax(call.kind)

\* C1: new with a non-empty device id, a timestamp not later than the clock
\* reading of the call and a value within the bounds of the kind (bounds
\* included) succeeds, and the four accessors of the returned object return
\* exactly the four arguments.
C1_ValidConstructionRoundTrips ==
    (call # NoCall /\ call.device_id # <<>> /\ call.timestamp <= call.clock /\ CallInRange)
    => /\ result.tag = "Ok"
       /\ got # NotRead =>
            got = [device_id |-> call.device_id, timestamp |-> call.timestamp,
                   value |-> call.value, unit |-> call.unit]

\* a CO2 reading of exactly the maximum, stamped with exactly the clock
\* reading, was constructed and its accessors read back
C1_Witness ==
    /\ call # NoCall
    /\ call.kind = "CO2Sensor"
    /\ call.value = F(50000)
    /\ call.timestamp = call.clock
    /\ call.clock > 0
    /\ result.tag = "Ok"
    /\ got # NotRead
    /\ got.value = F(50000)
    /\ got.device_id = STR_device_001

\* C2: new with a non-empty device id, a non-future timestamp and a value
\* below the minimum or above the maximum fails with ValueOutOfRange
\* carrying the supplied value and the bounds of the kind, for either unit.
C2_OutOfRangeCarriesValueAndBounds ==
    (call # NoCall /\ call.device_id # <<>> /\ call.timestamp <= call.clock /\ CallOutOfRange)
    => result = [tag |-> "Err",
                 err |-> [variant |-> "ValueOutOfRange", value |-> call.value,
                          min |-> F(TableMin(call.kind)), max |-> F(TableMax(call.kind))]]

\* Temperature("device-001", now, -60, Fahrenheit) was rejected with
\* ValueOutOfRange{-60, -50, 150}
C2_Witness ==
    /\ call # NoCall
    /\ call.kind = "TemperatureSensor"
    /\ call.unit = "Fahrenheit"
    /\ call.device_id = STR_device_001
    /\ call.timestamp = call.clock
    /\ call.value = F(-60)
    /\ result.tag = "Err"
    /\ result.err = [variant |-> "ValueOutOfRange", value |-> F(-60),
                     min |-> F(-50), max |-> F(150)]

\* C3: new with the empty device id fails with EmptyDeviceId for every
\* timestamp, value and unit.
C3_EmptyDeviceIdRejected ==
    (call # NoCall /\ call.device_id = <<>>)
    => result = [tag |-> "Err", err |-> [variant |-> "EmptyDeviceId"]]

\* a humidity reading that is valid but for its empty device id was rejected
C3_Witness ==
    /\ call # NoCall
    /\ call.kind = "HumiditySensor"
    /\ call.device_id = <<>>
    /\ call.timestamp < call.clock
    /\ call.value = F(25)
    /\ result.tag = "Err"
    /\ result.err.variant = "EmptyDeviceId"

\* C4: new with a non-empty device id, an in-range value and a timestamp
\* strictly later than the clock reading of the call fails with
\* FutureTimestamp and no object is produced.
C4_FutureTimestampRejected ==
    (call # NoCall /\ call.device_id # <<>> /\ call.timestamp > call.clock /\ CallInRange)
    => result = [tag |-> "Err", err |-> [variant |-> "FutureTimestamp"]]

\* a temperature reading stamped one instant after the clock reading was
\* rejected
C4_Witness ==
    /\ call # NoCall
    /\ call.kind = "TemperatureSensor"
    /\ call.device_id = STR_device_001
    /\ call.timestamp = call.clock + 1
    /\ call.value = F(25)
    /\ result.tag = "Err"
    /\ result.err.variant = "FutureTimestamp"

\* C5: when the device id is empty, the timestamp is in the future and the
\* value is out of range, new returns EmptyDeviceId and no other variant.
C5_EmptyDeviceIdWinsOverAll ==
    (call # NoCall /\ call.device_id = <<>> /\ call.timestamp > call.clock /\ CallOutOfRange)
    => /\ result.tag = "Err"
       /\ result.err.variant = "EmptyDeviceId"
       /\ result.err.variant \notin {"FutureTimestamp", "ValueOutOfRange", "InvalidUnit"}

\* a CO2 call failing all three checks at once returned EmptyDeviceId
C5_Witness ==
    /\ call # NoCall
    /\ call.kind = "CO2Sensor"
    /\ call.device_id = <<>>
    /\ call.timestamp > call.clock
    /\ call.value = F(50001)
    /\ result.tag = "Err"
    /\ result.err.variant = "EmptyDeviceId"

\* the display label of each unit as the claim states it
TableLabel(u) ==
    CASE u = "Celsius" -> <<"C", "e", "l", "s", "i", "u", "s">>
      [] u = "Fahrenheit" -> <<"F", "a", "h", "r", "e", "n", "h", "e", "i", "t">>
      [] u = "Percent" -> <<"P", "e", "r", "c", "e", "n", "t">>
      [] u = "Ppm" -> <<"p", "p", "m">>

\* C8: for every constructed object the Sensor trait is a read-only
\* projection: its device_id, timestamp and value are those of the kind's
\* own accessors (the arguments of the call), and its unit is the display
\* label of the object's unit.
C8_SensorTraitProjects ==
    view # NotRead
    => /\ result.tag = "Ok"
       /\ view.device_id = call.device_id
       /\ view.timestamp = call.timestamp
       /\ view.value = call.value
       /\ view.unit = TableLabel(call.unit)
       /\ got # NotRead =>
            /\ view.device_id = got.device_id
            /\ view.timestamp = got.timestamp
            /\ view.value = got.value
            /\ view.unit = TableLabel(got.unit)

\* a humidity object was read both through its own accessors and through
\* the trait, and the trait named its unit "Percent"
C8_Witness ==
    /\ view # NotRead
    /\ got # NotRead
    /\ call.kind = "HumiditySensor"
    /\ got.unit = "Percent"
    /\ view.unit = <<"P", "e", "r", "c", "e", "n", "t">>
    /\ view.value = F(100)

----------------------------------------------------------------------------
(* Claims about the unit parsers, under SpecUnit *)

\* the pairs of a lower-case letter and its upper-case letter
CasePairs == {<<LowerAlphabet[i], UpperAlphabet[i]>> : i \in 1..Len(LowerAlphabet)}

\* t spells the alias a, letter by letter, in some mix of upper and lower case
SpelledAs(t, a) ==
    /\ Len(t) = Len(a)
    /\ \A i \in 1..Len(t) : t[i] = a[i] \/ <<a[i], t[i]>> \in CasePairs

\* the aliases of each kind and the member each stands for, as the claim
\* lists them
TableAliases(kind) ==
    CASE kind = "TemperatureUnit" ->
            {<<(<<"c", "e", "l", "s", "i", "u", "s">>), "Celsius">>,
             <<(<<"c">>), "Celsius">>,
             <<(<<"f", "a", "h", "r", "e", "n", "h", "e", "i", "t">>), "Fahrenheit">>,
             <<(<<"f">>), "Fahrenheit">>}
      [] kind = "HumidityUnit" ->
            {<<(<<"p", "e", "r", "c", "e", "n", "t">>), "Percent">>,
             <<(<<"%">>), "Percent">>}
      [] kind = "CO2Unit" ->
            {<<(<<"p", "p", "m">>), "Ppm">>}

\* C6: a unit parse succeeds exactly for the texts that spell an alias of
\* the kind in some mix of upper and lower case, and yields the member the
\* alias stands for; every other text fails.
C6_ParseAcceptsExactlyAliases ==
    parsed # NoParse
    => LET hits == {p \in TableAliases(parsed.kind) : SpelledAs(text, p[1])}
       IN  IF hits # {}
           THEN \A p \in hits : parsed.res = [tag |-> "Ok", obj |-> p[2]]
           ELSE parsed.res.tag = "Err"

\* "FaHReNhEIt" was parsed as a temperature unit and gave Fahrenheit
C6_Witness ==
    /\ parsed # NoParse
    /\ parsed.kind = "TemperatureUnit"
    /\ text = <<"F", "a", "H", "R", "e", "N", "h", "E", "I", "t">>
    /\ parsed.res = [tag |-> "Ok", obj |-> "Fahrenheit"]

\* C7: a unit parse that fails returns InvalidUnit carrying the input text
\* exactly as supplied, in its original case, and no unit value.
C7_InvalidUnitCarriesRawText ==
    (parsed # NoParse /\ parsed.res.tag # "Ok")
    => parsed.res = [tag |-> "Err", err |-> [variant |-> "InvalidUnit", raw |-> text]]

\* "Invalid" was parsed as a CO2 unit and rejected with InvalidUnit("Invalid")
C7_Witness ==
    /\ parsed # NoParse
    /\ parsed.kind = "CO2Unit"
    /\ text = <<"I", "n", "v", "a", "l", "i", "d">>
    /\ parsed.res.tag = "Err"
    /\ parsed.res.err.raw = <<"I", "n", "v", "a", "l", "i", "d">>

----------------------------------------------------------------------------
(* Claims about the aggregate record, under SpecData *)

\* the step applied one more builder call to the record
Applied(op) ==
    /\ Len(hist') = Len(hist) + 1
    /\ hist'[Len(hist')].op = op

\* the measurement of the builder call just applied
AppliedMeasurement ==
    [some |-> TRUE,
     m |-> [value |-> hist'[Len(hist')].value, unit |-> hist'[Len(hist')].unit]]

\* C9: with_temperature(v, u) (likewise with_humidity, with_co2) returns a
\* record whose named slot is exactly {v, u}, u verbatim, whatever the slot
\* held, with device_id, timestamp, the two other built-in slots and
\* additional_sensors unchanged.
C9_BuiltInSlotReplacedOthersKept ==
    [][ /\ Applied("with_temperature") =>
            /\ rec'.temperature = AppliedMeasurement
            /\ rec'.humidity = rec.humidity
            /\ rec'.co2 = rec.co2
        /\ Applied("with_humidity") =>
            /\ rec'.humidity = AppliedMeasurement
            /\ rec'.temperature = rec.temperature
            /\ rec'.co2 = rec.co2
        /\ Applied("with_co2") =>
            /\ rec'.co2 = AppliedMeasurement
            /\ rec'.temperature = rec.temperature
            /\ rec'.humidity = rec.humidity
        /\ (Applied("with_temperature") \/ Applied("with_humidity") \/ Applied("with_co2")) =>
            /\ rec'.device_id = rec.device_id
            /\ rec'.timestamp = rec.timestamp
            /\ DOMAIN rec'.additional_sensors = DOMAIN rec.additional_sensors
            /\ \A n \in DOMAIN rec.additional_sensors :
                  rec'.additional_sensors[n] = rec.additional_sensors[n]
      ]_vars

\* a temperature slot holding (22, "celsius") was replaced by
\* (-1000, "hPa") on a record that also holds a humidity slot
C9_Witness ==
    /\ Len(hist) = 4
    /\ hist[2] = [op |-> "with_temperature", name |-> <<>>, value |-> F(22), unit |-> STR_celsius]
    /\ hist[3].op = "with_humidity"
    /\ hist[4] = [op |-> "with_temperature", name |-> <<>>, value |-> F(-1000), unit |-> STR_hPa]
    /\ rec.temperature = [some |-> TRUE, m |-> [value |-> F(-1000), unit |-> STR_hPa]]
    /\ rec.humidity.some
    /\ ~rec.co2.some

\* the positions in hist of the with_additional_sensor calls made with name n
AttachesOf(n) ==
    {i \in 2..Len(hist) : hist[i].op = "with_additional_sensor" /\ hist[i].name = n}

\* the names attached so far
AttachedNames ==
    {hist[i].name : i \in {j \in 2..Len(hist) : hist[j].op = "with_additional_sensor"}}

\* additional_sensors holds exactly the attached names, each with the value
\* and unit of the last call made with it
C10_LastWriteWins ==
    /\ DOMAIN rec.additional_sensors = AttachedNames
    /\ \A n \in AttachedNames :
          LET last == CHOOSE i \in AttachesOf(n) : \A j \in AttachesOf(n) : j <= i
          IN  rec.additional_sensors[n] = [value |-> hist[last].value, unit |-> hist[last].unit]

\* a with_additional_sensor call leaves the rest of the record alone, and
\* repeating the call just made changes nothing
C10_Frame ==
    Applied("with_additional_sensor") =>
        /\ rec'.device_id = rec.device_id
        /\ rec'.timestamp = rec.timestamp
        /\ rec'.temperature = rec.temperature
        /\ rec'.humidity = rec.humidity
        /\ rec'.co2 = rec.co2
        /\ hist'[Len(hist')] = hist[Len(hist)] => rec' = rec

\* C10: after any sequence of with_additional_sensor calls,
\* additional_sensors maps each attached name to the (value, unit) of the
\* last call made with it and holds no other name; attaching the same name,
\* value and unit twice equals attaching it once; the calls leave
\* device_id, timestamp and the three built-in slots unchanged, also for
\* the names "temperature", "humidity" and "co2".
C10_AdditionalSensorsLastWriteWins ==
    []C10_LastWriteWins /\ [][C10_Frame]_vars

\* "temperature" was attached as an additional sensor, then "pressure",
\* then "temperature" again with another value: the mapping holds both
\* names, the later value, and the built-in temperature slot is still empty
C10_Witness ==
    /\ Len(hist) = 4
    /\ hist[2] = [op |-> "with_additional_sensor", name |-> STR_temperature,
                  value |-> F(22), unit |-> STR_celsius]
    /\ hist[3].op = "with_additional_sensor"
    /\ hist[3].name = STR_pressure
    /\ hist[4] = [op |-> "with_additional_sensor", name |-> STR_temperature,
                  value |-> F(-1000), unit |-> STR_hPa]
    /\ DOMAIN rec.additional_sensors = {STR_temperature, STR_pressure}
    /\ rec.additional_sensors[STR_temperature] = [value |-> F(-1000), unit |-> STR_hPa]
    /\ ~rec.temperature.some

----------------------------------------------------------------------------
(* Further claims about the record, the constructors and the units *)

\* C11: SensorData::new succeeds for every input, an empty device id and a
\* future timestamp included, and returns a record holding exactly that
\* device id and timestamp, with temperature, humidity and co2 absent and
\* additional_sensors empty; no SensorData operation yields a validation
\* error: what it returns is always a record.
C11_NewNeverValidates ==
    /\ DOMAIN rec = {"device_id", "timestamp", "temperature", "humidity", "co2",
                     "additional_sensors"}
    /\ Len(hist) = 1 =>
          /\ rec.device_id = hist[1].device_id
          /\ rec.timestamp = hist[1].timestamp
          /\ rec.temperature = [some |-> FALSE]
          /\ rec.humidity = [some |-> FALSE]
          /\ rec.co2 = [some |-> FALSE]
          /\ DOMAIN rec.additional_sensors = {}

\* a record was constructed with the empty device id and a timestamp later
\* than the clock
C11_Witness ==
    /\ Len(hist) = 1
    /\ hist[1].op = "new"
    /\ hist[1].device_id = <<>>
    /\ hist[1].timestamp > now
    /\ rec.device_id = <<>>
    /\ rec.timestamp = hist[1].timestamp
    /\ ~rec.temperature.some

\* C19: the returned error is that of the first failing check in the order
\* device id, timestamp, range; in particular a non-empty device id with a
\* future timestamp and a value outside the range gives FutureTimestamp,
\* never ValueOutOfRange.
C19_FirstFailingCheckWins ==
    call # NoCall =>
        IF call.device_id = <<>>
        THEN result = [tag |-> "Err", err |-> [variant |-> "EmptyDeviceId"]]
        ELSE IF call.timestamp > call.clock
        THEN result = [tag |-> "Err", err |-> [variant |-> "FutureTimestamp"]]
        ELSE IF ~CallInRange
        THEN /\ result.tag = "Err"
             /\ result.err.variant = "ValueOutOfRange"
        ELSE result.tag = "Ok"

\* a temperature of 160 stamped after the clock reading was rejected with
\* FutureTimestamp
C19_Witness ==
    /\ call # NoCall
    /\ call.kind = "TemperatureSensor"
    /\ call.device_id = STR_device_001
    /\ call.timestamp > call.clock
    /\ call.value = F(160)
    /\ result.tag = "Err"
    /\ result.err.variant = "FutureTimestamp"

\* the members of each unit kind as the claim lists them
TableMembers(kind) ==
    CASE kind = "TemperatureUnit" -> {"Celsius", "Fahrenheit"}
      [] kind = "HumidityUnit" -> {"Percent"}
      [] kind = "CO2Unit" -> {"Ppm"}

\* the labels of the members of a kind
LabelsOf(kind) ==
    CASE kind = "TemperatureUnit" -> {TemperatureUnit_as_str(u) : u \in TableMembers(kind)}
      [] kind = "HumidityUnit" -> {HumidityUnit_as_str(u) : u \in TableMembers(kind)}
      [] kind = "CO2Unit" -> {CO2Unit_as_str(u) : u \in TableMembers(kind)}

\* C20: the display label of every unit parses back to the same unit, and
\* distinct members of one kind have distinct labels.
C20_LabelParsesBack ==
    /\ (parsed # NoParse /\ "of" \in DOMAIN parsed) =>
          parsed.res = [tag |-> "Ok", obj |-> parsed.of]
    /\ \A k \in {"TemperatureUnit", "HumidityUnit", "CO2Unit"} :
          Cardinality(LabelsOf(k)) = Cardinality(TableMembers(k))

\* the label of Fahrenheit, "Fahrenheit", was parsed and gave Fahrenheit
C20_Witness ==
    /\ parsed # NoParse
    /\ "of" \in DOMAIN parsed
    /\ parsed.of = "Fahrenheit"
    /\ text = <<"F", "a", "h", "r", "e", "n", "h", "e", "i", "t">>
    /\ parsed.res = [tag |-> "Ok", obj |-> "Fahrenheit"]

----------------------------------------------------------------------------
(* The repository's contract *)

\* the records the collection holds, in insertion order, as they were handed
\* to save
SentData == [i \in 1..Len(sent) |-> sent[i].data]

\* the number of times a record occurs in a sequence
Copies(seq, r) == Cardinality({j \in 1..Len(seq) : seq[j] = r})

\* every save so far that reached the collection returned Ok
AllSavesSucceeded == \A i \in 1..Len(sent) : sent[i].acked

\* the last repository call was a find_by_device_id that returned Ok
FindReturnedOk == repoCall.kind = "find_by_device_id" /\ repoRes.tag = "Ok"

\* C12: after any sequence of successful save calls, find_by_device_id(d)
\* returns exactly the saved records whose device_id equals d: every such
\* record is returned, as many times as it was saved, and no record with a
\* different device_id is returned.
C12_FindReturnsExactlyTheSaved ==
    (FindReturnedOk /\ AllSavesSucceeded) =>
        LET d == repoCall.device_id
            found == repoRes.obj
        IN  /\ \A j \in 1..Len(found) : found[j].device_id = d
            /\ \A j \in 1..Len(found) : found[j] \in RepoRecords
            /\ \A r \in RepoRecords :
                    Copies(found, r) = IF r.device_id = d THEN Copies(SentData, r) ELSE 0

\* a find that returns some but not all of the store: records of two devices
\* were saved and those of one are asked for
C12_Witness ==
    /\ FindReturnedOk
    /\ AllSavesSucceeded
    /\ Len(repoRes.obj) = 2
    /\ Len(store) = 3
    /\ \E i \in 1..Len(sent) : SentData[i].device_id # repoCall.device_id

\* no record of device id d has reached the collection
NoSavedRecordOf(d) == \A i \in 1..Len(sent) : SentData[i].device_id # d

\* C13: find_by_device_id(d) for a device id with no saved record (empty
\* store, or a store holding only records of other device ids) returns a
\* successful empty sequence, not an error, whenever the backend answers.
C13_NoMatchIsOkEmpty ==
    (/\ repoCall.kind = "find_by_device_id"
     /\ repoCall.outcome = "ok"
     /\ NoSavedRecordOf(repoCall.device_id)) =>
        /\ repoRes.tag = "Ok"
        /\ Len(repoRes.obj) = 0

\* a find for a device id that was never saved, on a store that holds
\* records of other devices only
C13_Witness ==
    /\ repoCall.kind = "find_by_device_id"
    /\ repoCall.device_id = STR_device_001
    /\ Len(store) >= 2
    /\ repoRes = Ok(<<>>)

\* the number of saves of record r that returned Ok
SavedOk(r) == Cardinality({i \in 1..Len(sent) : sent[i].data = r /\ sent[i].acked})

\* a step that is a call of save the backend accepts
AcceptedSave == repoCall = NoCall /\ repoCall'.kind = "save" /\ repoCall'.outcome = "ok"

\* a save the backend accepts returns Ok and adds exactly one document, the
\* record's, whatever the record and whatever the collection holds
C14_SaveAddsOne ==
    AcceptedSave =>
        /\ repoRes' = Ok(Unit)
        /\ Len(store') = Len(store) + 1
        /\ SubSeq(store', 1, Len(store)) = store
        /\ SensorData_from(SensorDataDocument_deserialize(store'[Len(store')]))
                = repoCall'.data

\* a record saved n times is returned n times
C14_Copies ==
    FindReturnedOk =>
        \A r \in RepoRecords :
            r.device_id = repoCall.device_id =>
                /\ Copies(repoRes.obj, r) >= SavedOk(r)
                /\ AllSavesSucceeded => Copies(repoRes.obj, r) = SavedOk(r)

\* C14: save neither deduplicates nor validates: each successful save adds
\* exactly one stored record, so saving the same record n times makes
\* find_by_device_id return n copies, and a record with an empty device_id
\* or with no measurement at all is stored like any other.
C14_SaveNeitherDedupsNorValidates == []C14_Copies /\ [][C14_SaveAddsOne]_vars

\* the record with the empty device id and no measurement, saved three
\* times and returned three times
C14_Witness ==
    /\ FindReturnedOk
    /\ AllSavesSucceeded
    /\ Len(repoRes.obj) = 3
    /\ \A j \in 1..3 : repoRes.obj[j] = SensorData_new(<<>>, MaxNow + 1)

\* the record a stored document reads back as
ReadBack(b) == SensorData_from(SensorDataDocument_deserialize(b))

\* two measurement slots hold the same content
SameSlot(a, b) ==
    /\ a.some <=> b.some
    /\ a.some => (a.m.value = b.m.value /\ a.m.unit = b.m.unit)

\* two records hold the same content, field by field
SameContent(a, b) ==
    /\ a.device_id = b.device_id
    /\ a.timestamp = b.timestamp
    /\ SameSlot(a.temperature, b.temperature)
    /\ SameSlot(a.humidity, b.humidity)
    /\ SameSlot(a.co2, b.co2)
    /\ DOMAIN a.additional_sensors = DOMAIN b.additional_sensors
    /\ \A n \in DOMAIN a.additional_sensors :
            /\ a.additional_sensors[n].value = b.additional_sensors[n].value
            /\ a.additional_sensors[n].unit = b.additional_sensors[n].unit

\* C15: a record saved and then re-fetched by its device id comes back with
\* the same content: same device_id and timestamp, each built-in slot
\* present exactly when it was set and with the same value and unit text,
\* and additional_sensors with the same names mapped to the same (value,
\* unit): SensorData -> SensorDataDocument -> SensorData is the identity.
C15_RoundTripIsIdentity ==
    /\ Len(store) = Len(sent)
    /\ \A i \in 1..Len(store) : SameContent(ReadBack(store[i]), SentData[i])
    /\ FindReturnedOk =>
            \A j \in 1..Len(repoRes.obj) :
                \E i \in 1..Len(sent) :
                    /\ SentData[i].device_id = repoCall.device_id
                    /\ SameContent(repoRes.obj[j], SentData[i])

\* the record with every slot set and two additional sensors, saved and
\* fetched back as the only record of its device
C15_Witness ==
    /\ FindReturnedOk
    /\ repoCall.device_id = STR_other_device
    /\ Len(repoRes.obj) = 1
    /\ repoRes.obj[1].temperature.some
    /\ repoRes.obj[1].humidity.some
    /\ repoRes.obj[1].co2.some
    /\ DOMAIN repoRes.obj[1].additional_sensors = {STR_pressure, STR_temperature}
    /\ \E i \in 1..Len(sent) : repoRes.obj[1] = SentData[i]

\* the keys of a stored document that hold a measurement slot
SlotKeys == {"temperature", "humidity", "co2"}

\* the slot of a record that a key of the document stands for
SlotOf(data, key) ==
    CASE key = "temperature" -> data.temperature
      [] key = "humidity" -> data.humidity
      [] key = "co2" -> data.co2

\* C16: in the serialized form of a stored record, the keys temperature,
\* humidity and co2 are present exactly when the corresponding slot of the
\* record is set, and additional_sensors is present exactly when the mapping
\* is non-empty; an absent slot is never written as null or as an empty
\* object, and a document read without additional_sensors yields an empty
\* mapping.
C16_AbsentFieldsAreOmitted ==
    \A i \in 1..Len(store) :
        LET b == store[i]
            data == SentData[i]
        IN  /\ \A key \in SlotKeys :
                    /\ (key \in DOMAIN b) <=> SlotOf(data, key).some
                    /\ key \in DOMAIN b => DOMAIN b[key] = {"value", "unit"}
            /\ ("additional_sensors" \in DOMAIN b)
                    <=> (DOMAIN data.additional_sensors # {})
            /\ "additional_sensors" \in DOMAIN b
                    => DOMAIN b["additional_sensors"] # {}
            /\ "additional_sensors" \notin DOMAIN b
                    => DOMAIN SensorDataDocument_deserialize(b).additional_sensors = {}

\* the store holds a document with no optional key and a document with all
\* of them
C16_Witness ==
    /\ \E i \in 1..Len(store) :
            DOMAIN store[i] = {"_id", "device_id", "timestamp"}
    /\ \E i \in 1..Len(store) :
            DOMAIN store[i] = {"_id", "device_id", "timestamp", "temperature",
                               "humidity", "co2", "additional_sensors"}

\* the backend failed the insert or the query of the last repository call
BackendFailed == repoCall.outcome # "ok"

\* a backend failure is returned as the error, after one attempt, and is the
\* only source of an error
C17_ErrorSurfaced ==
    repoCall # NoCall =>
        /\ repoCall.attempts = 1
        /\ BackendFailed <=> repoRes.tag = "Err"
        /\ BackendFailed => repoRes = Err(StorageError)

\* a step that is a call of save returning an error
FailedSave == repoCall = NoCall /\ repoCall'.kind = "save" /\ repoRes'.tag = "Err"

\* a step that is a call of find_by_device_id
FindStep == repoCall = NoCall /\ repoCall'.kind = "find_by_device_id"

C17_FailedSaveLeavesStoreUnchanged == FailedSave => store' = store

\* C17 as stated: when the storage backend fails an insert or a query, save /
\* find_by_device_id returns that error to the caller after a single attempt
\* (no retry, no suppression into a success or an empty result), and a
\* failed save leaves the set of stored records unchanged.
C17_FailedSaveChangesNothing ==
    []C17_ErrorSurfaced /\ [][C17_FailedSaveLeavesStoreUnchanged]_vars

\* a failed save leaves the collection as it was or with one more document,
\* the whole record's
C17_FailedSaveAddsNoneOrWhole ==
    FailedSave =>
        \/ store' = store
        \/ /\ Len(store') = Len(store) + 1
           /\ SubSeq(store', 1, Len(store)) = store
           /\ SameContent(ReadBack(store'[Len(store')]), repoCall'.data)
           /\ DOMAIN store'[Len(store')]
                = DOMAIN WithObjectId(store, SensorDataDocument_serialize(
                                                SensorDataDocument_from(repoCall'.data)))

\* C17, amended: when the storage backend fails an insert or a query, save /
\* find_by_device_id returns that error to the caller after a single attempt
\* (no retry, no suppression into a success or an empty result); a failed
\* save leaves the stored records unchanged or, when the backend applied the
\* insert before it failed, with the whole record added: no record is
\* persisted partially, and a find changes nothing.
C17_FailureSurfacedNoPartialRecord ==
    /\ []C17_ErrorSurfaced
    /\ [][C17_FailedSaveAddsNoneOrWhole]_vars
    /\ [][FindStep => store' = store]_vars

\* a save returned the backend's error although the insert was applied: the
\* collection holds the whole record
C17_Witness ==
    /\ repoCall.kind = "save"
    /\ repoCall.outcome = "unacknowledged"
    /\ repoRes = Err(StorageError)
    /\ Len(store) >= 2
    /\ ~sent[Len(sent)].acked
    /\ SameContent(ReadBack(store[Len(store)]), repoCall.data)

----------------------------------------------------------------------------
(* The repository under concurrent callers *)

\* every caller's call has returned
AllReturned == \A c \in Callers : callers[c].pc = "returned"

\* the records a collection reads back as, in insertion order
RecordsOf(coll) == [i \in 1..Len(coll) |-> ReadBack(coll[i])]

\* the callers whose save of record r returned Ok
SaversOk(r) ==
    {c \in Callers : /\ callers[c].kind = "save"
                     /\ callers[c].pc = "returned"
                     /\ callers[c].res.tag = "Ok"
                     /\ callers[c].data = r}

\* the orders in which the callers' calls can be made one after the other
CallerOrders ==
    {o \in [Callers -> Callers] : \A i, j \in Callers : i # j => o[i] # o[j]}

\* the collection after the first n calls of an order, made one after the
\* other from the empty collection, each save with the outcome it had
RECURSIVE SavedInOrder(_, _)
SavedInOrder(order, n) ==
    IF n = 0 THEN <<>>
    ELSE LET coll == SavedInOrder(order, n - 1)
             c == callers[order[n]]
         IN  IF c.kind = "save"
             THEN MongoSensorRepository_save(coll, c.data, c.outcome).coll
             ELSE coll

\* two sequences hold the same records the same number of times
SameRecords(a, b) ==
    /\ Len(a) = Len(b)
    /\ \A r \in ConcRecords : Copies(a, r) = Copies(b, r)

\* once all calls have returned, the record of every successful save is
\* in the collection, once per save
C18_SuccessfulSavesPresent ==
    AllReturned =>
        \A r \in ConcRecords :
            Copies(RecordsOf(store), r) >= Cardinality(SaversOk(r))

\* once all calls have returned, the collection holds the records it would
\* hold had the calls been made in any order one after the other
C18_AsAnySequentialOrder ==
    AllReturned =>
        \A order \in CallerOrders :
            SameRecords(RecordsOf(store),
                        RecordsOf(SavedInOrder(order, MaxCallers)))

\* whatever the other callers are doing, a find returns only whole records
\* that some caller handed to save, of the device id asked for
C18_FindReturnsWholeSavedRecords ==
    \A c \in Callers :
        (/\ callers[c].kind = "find_by_device_id"
         /\ callers[c].pc = "returned"
         /\ callers[c].res.tag = "Ok") =>
            \A j \in 1..Len(callers[c].res.obj) :
                /\ callers[c].res.obj[j].device_id = callers[c].device_id
                /\ \E k \in Callers :
                        /\ callers[k].kind = "save"
                        /\ SameContent(callers[c].res.obj[j], callers[k].data)

\* C18: saves are independent under concurrency: when several callers issue
\* save calls on the same repository concurrently, in every interleaving each
\* successful save's record is present once all calls have returned (no lost
\* or merged record), the final multiset of stored records is the same as
\* for any sequential order of the same calls, and a concurrent
\* find_by_device_id never returns a record that is not one of the saved
\* records in full.
C18_SavesAreIndependent ==
    /\ C18_SuccessfulSavesPresent
    /\ C18_AsAnySequentialOrder
    /\ C18_FindReturnsWholeSavedRecords

\* two callers saved different records of one device at the same time, both
\* saves returned Ok, and the second caller's insert was applied first
C18_Witness ==
    /\ AllReturned
    /\ \A c \in {1, 2} : callers[c].kind = "save" /\ callers[c].res = Ok(Unit)
    /\ callers[1].data # callers[2].data
    /\ callers[1].data.device_id = callers[2].data.device_id
    /\ Len(store) = 2
    /\ ReadBack(store[1]) = callers[2].data
    /\ ReadBack(store[2]) = callers[1].data

----------------------------------------------------------------------------
(* The constructors as the clock moves *)

\* the last call repeated an earlier call with the same four arguments
Repeated == call # NoCall /\ "before" \in DOMAIN call

\* C21: acceptance is monotone in time under a non-decreasing clock: if
\* new(deviceId, timestamp, value, unit) succeeds at some clock reading, the
\* same four arguments succeed at every later clock reading; the only
\* outcome that can change as the clock advances is FutureTimestamp, which
\* stops being returned for a given timestamp once the clock has reached
\* that timestamp. When the clock has stepped backwards between the two
\* calls, the outcome changes only into FutureTimestamp, for a timestamp
\* after the new reading.
C21_AcceptanceMonotoneInTime ==
    /\ (call # NoCall /\ call.timestamp <= call.clock)
            => result # Err(FutureTimestamp)
    /\ (Repeated /\ call.before.clock <= call.clock) =>
            /\ call.before.result.tag = "Ok" => result = call.before.result
            /\ result # call.before.result =>
                    /\ call.before.result = Err(FutureTimestamp)
                    /\ call.before.clock < call.timestamp
                    /\ call.timestamp <= call.clock
    /\ (Repeated /\ call.before.clock > call.clock) =>
            (result # call.before.result =>
                    /\ result = Err(FutureTimestamp)
                    /\ call.clock < call.timestamp
                    /\ call.timestamp <= call.before.clock)

\* a call rejected as FutureTimestamp, repeated with the same arguments
\* after the clock reached the timestamp, succeeds
C21_Witness ==
    /\ Repeated
    /\ call.before.clock < call.clock
    /\ call.before.result = Err(FutureTimestamp)
    /\ call.timestamp = call.clock
    /\ result.tag = "Ok"

====
